---- MODULE Spec2Model ----
(***************************************************************************)
(* Model of the Gemini reading-comprehension server: the three handlers   *)
(* of the full server (POST /analyze, /mindmap, /solve) and the /analyze  *)
(* handler of the minimal server.js.                                       *)
(*                                                                         *)
(* Text is a sequence of lexemes.  The characters the code looks at are    *)
(* lexemes of their own: a backtick, the braces, brackets, colon, comma,   *)
(* double quote, blank and newline.  A run of other characters (a word,    *)
(* a number) is one lexeme, so a json fence is <<BT, BT, BT, "json">>.     *)
(***************************************************************************)
EXTENDS Integers, Sequences, FiniteSets, TLC

\* ---------------------------------------------------------------- bounds
\* longest model reply enumerated exhaustively over Alphabet
MaxReplyLen == 4

\* number of requests in flight together in SpecConc
NumConc == 2

\* ------------------------------------------------------- string helpers
\* the backtick character (the lexer of TLA+ rejects it inside a string)
BT == "<backtick>"

QT == "\""

NL == "\n"

WhiteSpace == {" ", NL}

\* String.prototype.trim: the text between its first and its last lexeme
\* that is not white space, empty when there is none
Trim(s) ==
  IF \A i \in 1..Len(s) : s[i] \in WhiteSpace THEN <<>>
  ELSE LET a == CHOOSE i \in 1..Len(s) :
                  s[i] \notin WhiteSpace /\ \A j \in 1..(i-1) : s[j] \in WhiteSpace
           b == CHOOSE i \in 1..Len(s) :
                  s[i] \notin WhiteSpace /\ \A j \in (i+1)..Len(s) : s[j] \in WhiteSpace
       IN SubSeq(s, a, b)

\* the text without the positions in drop, order kept
DropPositions(s, drop) ==
  LET kept == SelectSeq([i \in 1..Len(s) |-> i], LAMBDA i : i \notin drop)
  IN [k \in 1..Len(kept) |-> s[kept[k]]]

\* the first position of the run of backticks that position i lies in
RunStart(s, i) ==
  CHOOSE j \in 1..i :
    (\A h \in j..i : s[h] = BT) /\ (j = 1 \/ s[j-1] # BT)

\* a match of the fence (three backticks) starts at position i: the scan
\* of a global replace goes left to right and resumes after each match, so
\* in a run of backticks the matches start at every third position
FenceAt(s, i) ==
  /\ i >= 1 /\ i + 2 <= Len(s)
  /\ s[i] = BT /\ s[i+1] = BT /\ s[i+2] = BT
  /\ (i - RunStart(s, i)) % 3 = 0

\* the positions where a match of the fence starts
FenceStarts(s) == {i \in 1..Len(s) : FenceAt(s, i)}

\* text.replace(/FENCE<lang>|FENCE/g, "") where FENCE is three backticks:
\* at a match position the alternative with <lang> is tried first, so the
\* tag right after a matched fence goes with it
ReplaceFences(s, lang) ==
  DropPositions(s, UNION {
    IF i + 3 <= Len(s) /\ s[i + 3] = lang
    THEN {i, i + 1, i + 2, i + 3} ELSE {i, i + 1, i + 2} : i \in FenceStarts(s)})

\* String.prototype.indexOf for a one-character needle: 0-based, -1 if absent
IndexOf(s, ch) ==
  IF \E i \in 1..Len(s) : s[i] = ch
  THEN (CHOOSE i \in 1..Len(s) : s[i] = ch /\ \A j \in 1..(i-1) : s[j] # ch) - 1
  ELSE -1

\* String.prototype.lastIndexOf for a one-character needle
LastIndexOf(s, ch) ==
  IF \E i \in 1..Len(s) : s[i] = ch
  THEN (CHOOSE i \in 1..Len(s) : s[i] = ch /\ \A j \in (i+1)..Len(s) : s[j] # ch) - 1
  ELSE -1

\* an index argument of slice: a negative one counts from the end, and the
\* result is clamped to 0 .. length
SliceIndex(n, len) ==
  IF n < 0 THEN (IF len + n < 0 THEN 0 ELSE len + n)
  ELSE IF n > len THEN len ELSE n

\* String.prototype.slice(from, to): the characters at the 0-based
\* positions from .. to-1, empty when to <= from
Slice(s, from, to) ==
  LET a == SliceIndex(from, Len(s))
      b == SliceIndex(to, Len(s))
  IN IF b <= a THEN <<>> ELSE SubSeq(s, a + 1, b)

\* ------------------------------------------------------------ JSON.parse
\* A JSON value: t is its type; s the lexemes of a string or number; c the
\* elements of an array or the members of an object (each member is the
\* value with k set to its key).  k is <<>> outside an object.
MkVal(t, s, c) == [t |-> t, k |-> <<>>, s |-> s, c |-> c]

\* stands for "no value" (undefined) wherever a value is optional
NoJson == MkVal("undefined", <<>>, <<>>)

\* the number lexemes of the model
Numbers == {"1", "2"}

\* the literal names of JSON
Literals == {"null", "true", "false"}

\* result of a parsing step
ParseOk(v, rest) == [ok |-> TRUE, val |-> v, rest |-> rest, msg |-> ""]

ParseFail(m) == [ok |-> FALSE, val |-> NoJson, rest |-> <<>>, msg |-> m]

\* JSON whitespace between tokens is skipped
SkipWs(s) ==
  IF \A i \in 1..Len(s) : s[i] \in WhiteSpace THEN <<>>
  ELSE SubSeq(s, CHOOSE i \in 1..Len(s) :
                   s[i] \notin WhiteSpace /\ \A j \in 1..(i-1) : s[j] \in WhiteSpace,
              Len(s))

\* a string literal: from the opening quote to the next quote; a raw newline
\* inside it is a control character and is rejected
ParseString(s) ==
  IF \E j \in 2..Len(s) : s[j] = QT
  THEN LET j == CHOOSE i \in 2..Len(s) :
                  s[i] = QT /\ \A h \in 2..(i-1) : s[h] # QT
           body == SubSeq(s, 2, j - 1)
       IN IF \E h \in 1..Len(body) : body[h] = NL
          THEN ParseFail("Bad control character in string literal in JSON")
          ELSE ParseOk(MkVal("string", body, <<>>), SubSeq(s, j + 1, Len(s)))
  ELSE ParseFail("Unterminated string in JSON")

\* defining a property: a repeated key keeps its first position and takes
\* the last value
PutMember(acc, key, v) ==
  LET m == [v EXCEPT !.k = key]
  IN IF \E i \in 1..Len(acc) : acc[i].k = key
     THEN [i \in 1..Len(acc) |-> IF acc[i].k = key THEN m ELSE acc[i]]
     ELSE Append(acc, m)

RECURSIVE ParseValue(_), ParseMembers(_, _, _), ParseElements(_, _, _)
\* value := string | number | literal | object | array
ParseValue(s0) ==
  LET s == SkipWs(s0)
  IN IF s = <<>> THEN ParseFail("Unexpected end of JSON input")
     ELSE IF Head(s) = QT THEN ParseString(s)
     ELSE IF Head(s) = "{" THEN ParseMembers(SkipWs(Tail(s)), <<>>, TRUE)
     ELSE IF Head(s) = "[" THEN ParseElements(SkipWs(Tail(s)), <<>>, TRUE)
     ELSE IF Head(s) \in Numbers
          THEN ParseOk(MkVal("number", <<Head(s)>>, <<>>), Tail(s))
     ELSE IF Head(s) \in Literals
          THEN ParseOk(MkVal(IF Head(s) = "null" THEN "null" ELSE "boolean",
                             <<Head(s)>>, <<>>), Tail(s))
     ELSE ParseFail("Unexpected token in JSON")

\* members := [ string ":" value { "," string ":" value } ] "}"
ParseMembers(s, acc, first) ==
  IF s = <<>> THEN ParseFail("Unexpected end of JSON input")
  ELSE IF first /\ Head(s) = "}" THEN ParseOk(MkVal("object", <<>>, acc), Tail(s))
  ELSE IF Head(s) # QT THEN ParseFail("Unexpected token in JSON")
  ELSE LET key == ParseString(s)
       IN IF ~key.ok THEN key
          ELSE LET a == SkipWs(key.rest)
               IN IF a = <<>> THEN ParseFail("Unexpected end of JSON input")
                  ELSE IF Head(a) # ":" THEN ParseFail("Unexpected token in JSON")
                  ELSE LET v == ParseValue(Tail(a))
                       IN IF ~v.ok THEN v
                          ELSE LET b == SkipWs(v.rest)
                                   acc2 == PutMember(acc, key.val.s, v.val)
                               IN IF b = <<>>
                                  THEN ParseFail("Unexpected end of JSON input")
                                  ELSE IF Head(b) = ","
                                  THEN ParseMembers(SkipWs(Tail(b)), acc2, FALSE)
                                  ELSE IF Head(b) = "}"
                                  THEN ParseOk(MkVal("object", <<>>, acc2), Tail(b))
                                  ELSE ParseFail("Unexpected token in JSON")

\* elements := [ value { "," value } ] "]"
ParseElements(s, acc, first) ==
  IF s = <<>> THEN ParseFail("Unexpected end of JSON input")
  ELSE IF first /\ Head(s) = "]" THEN ParseOk(MkVal("array", <<>>, acc), Tail(s))
  ELSE LET v == ParseValue(s)
       IN IF ~v.ok THEN v
          ELSE LET b == SkipWs(v.rest)
               IN IF b = <<>> THEN ParseFail("Unexpected end of JSON input")
                  ELSE IF Head(b) = ","
                  THEN ParseElements(SkipWs(Tail(b)), Append(acc, v.val), FALSE)
                  ELSE IF Head(b) = "]"
                  THEN ParseOk(MkVal("array", <<>>, Append(acc, v.val)), Tail(b))
                  ELSE ParseFail("Unexpected token in JSON")

\* JSON.parse(text): one value, then nothing but whitespace; a failure is
\* the SyntaxError the call throws
JsonParse(text) ==
  LET r == ParseValue(text)
  IN IF ~r.ok THEN r
     ELSE IF SkipWs(r.rest) # <<>>
          THEN ParseFail("Unexpected non-whitespace character after JSON")
          ELSE ParseOk(r.val, <<>>)

\* ------------------------------------------------- building JSON text
\* the text of a string literal
Str(w) == <<QT, w, QT>>

\* the text "key": value
Member(key, valueText) == Str(key) \o <<":">> \o valueText

RECURSIVE JoinWith(_, _)
\* Array.prototype.join on a sequence of texts
JoinWith(parts, sep) ==
  IF parts = <<>> THEN <<>>
  ELSE IF Len(parts) = 1 THEN parts[1]
  ELSE parts[1] \o sep \o JoinWith(Tail(parts), sep)

\* the text of an object with the given member texts
ObjText(members) == <<"{">> \o JoinWith(members, <<",">>) \o <<"}">>

\* the text of an array with the given element texts
ArrText(elems) == <<"[">> \o JoinWith(elems, <<",">>) \o <<"]">>

\* ------------------------------------------------- the schema of /analyze
\* does the object have the property
Has(obj, key) == \E i \in 1..Len(obj.c) : obj.c[i].k = <<key>>

\* the value of a property of an object that has it
Get(obj, key) == obj.c[CHOOSE i \in 1..Len(obj.c) : obj.c[i].k = <<key>>]

\* the own property names of an object
Keys(obj) == {obj.c[i].k : i \in 1..Len(obj.c)}

\* one error object of the validator
Err(path, keyword, param) ==
  [instancePath |-> path, keyword |-> keyword, param |-> param]

\* the validator stops at the first failing keyword (allErrors is off)
FirstError(checks) ==
  IF \E i \in 1..Len(checks) : checks[i] # <<>>
  THEN checks[CHOOSE i \in 1..Len(checks) :
                checks[i] # <<>> /\ \A j \in 1..(i-1) : checks[j] = <<>>]
  ELSE <<>>

\* keyword type
CheckType(v, path, type) ==
  IF v.t = type THEN <<>> ELSE <<Err(path, "type", type)>>

\* keyword required: the first missing name
CheckRequired(v, path, names) ==
  FirstError([i \in 1..Len(names) |->
                IF Has(v, names[i]) THEN <<>>
                ELSE <<Err(path, "required", names[i])>>])

\* keyword enum on top of type string
CheckEnum(v, path, allowed) ==
  FirstError(<<CheckType(v, path, "string"),
               IF v.s \in {<<a>> : a \in allowed} THEN <<>>
               ELSE <<Err(path, "enum", "allowedValues")>>>>)

\* a property of type string, checked when present
StringProp(obj, path, key) ==
  IF Has(obj, key) THEN CheckType(Get(obj, key), Append(path, key), "string")
  ELSE <<>>

\* a property with an enum, checked when present
EnumProp(obj, path, key, allowed) ==
  IF Has(obj, key) THEN CheckEnum(Get(obj, key), Append(path, key), allowed)
  ELSE <<>>

\* { word: string, meaning: string }, both required
VocabularyItem(v, path) ==
  FirstError(<<CheckType(v, path, "object"),
               CheckRequired(v, path, <<"word", "meaning">>),
               StringProp(v, path, "word"),
               StringProp(v, path, "meaning")>>)

\* { direct: string, indirect: string }, both required
MainIdea(v, path) ==
  FirstError(<<CheckType(v, path, "object"),
               CheckRequired(v, path, <<"direct", "indirect">>),
               StringProp(v, path, "direct"),
               StringProp(v, path, "indirect")>>)

\* { type: Fact | Opinion | Inference, text: string }, both required
FactItem(v, path) ==
  FirstError(<<CheckType(v, path, "object"),
               CheckRequired(v, path, <<"type", "text">>),
               EnumProp(v, path, "type", {"Fact", "Opinion", "Inference"}),
               StringProp(v, path, "text")>>)

\* { src, dest: string, relation: one of four }, all required
TransitionItem(v, path) ==
  FirstError(<<CheckType(v, path, "object"),
               CheckRequired(v, path, <<"src", "dest", "relation">>),
               StringProp(v, path, "src"),
               StringProp(v, path, "dest"),
               EnumProp(v, path, "relation",
                        {"logical", "contrastive", "sequential", "causal"})>>)

\* items: { type: string }
KeywordItem(v, path) == CheckType(v, path, "string")

\* the seven required top-level names, in the order of the schema
RequiredKeys ==
  <<"vocabulary", "title", "main_idea", "facts_opinions_inferences",
    "transitions", "keywords", "purpose">>

\* additionalProperties: false, against the names under properties
CheckAdditional(v, path) ==
  IF \E i \in 1..Len(v.c) :
       v.c[i].k \notin {<<RequiredKeys[j]>> : j \in 1..Len(RequiredKeys)}
  THEN <<Err(path, "additionalProperties", "additionalProperty")>>
  ELSE <<>>

\* the errors of a property of type array whose items follow a schema
ArrayProp(obj, path, key, kind) ==
  IF ~Has(obj, key) THEN <<>>
  ELSE LET a == Get(obj, key)
           p == Append(path, key)
       IN FirstError(<<CheckType(a, p, "array")>> \o
            [i \in 1..Len(a.c) |->
               LET q == Append(p, ToString(i - 1))
               IN CASE kind = "vocabulary" -> VocabularyItem(a.c[i], q)
                    [] kind = "fact" -> FactItem(a.c[i], q)
                    [] kind = "transition" -> TransitionItem(a.c[i], q)
                    [] OTHER -> KeywordItem(a.c[i], q)])

\* a validator that does not enforce additionalProperties: false
SchemaErrorsOpen(v) ==
  FirstError(<<CheckType(v, <<>>, "object"),
               CheckRequired(v, <<>>, RequiredKeys),
               ArrayProp(v, <<>>, "vocabulary", "vocabulary"),
               StringProp(v, <<>>, "title"),
               IF Has(v, "main_idea")
               THEN MainIdea(Get(v, "main_idea"), <<"main_idea">>) ELSE <<>>,
               ArrayProp(v, <<>>, "facts_opinions_inferences", "fact"),
               ArrayProp(v, <<>>, "transitions", "transition"),
               ArrayProp(v, <<>>, "keywords", "keyword"),
               StringProp(v, <<>>, "purpose")>>)

\* the errors the compiled schema reports for a value (<<>> when it conforms)
SchemaErrors(v) ==
  FirstError(<<CheckType(v, <<>>, "object"),
               CheckRequired(v, <<>>, RequiredKeys),
               CheckAdditional(v, <<>>),
               ArrayProp(v, <<>>, "vocabulary", "vocabulary"),
               StringProp(v, <<>>, "title"),
               IF Has(v, "main_idea")
               THEN MainIdea(Get(v, "main_idea"), <<"main_idea">>) ELSE <<>>,
               ArrayProp(v, <<>>, "facts_opinions_inferences", "fact"),
               ArrayProp(v, <<>>, "transitions", "transition"),
               ArrayProp(v, <<>>, "keywords", "keyword"),
               StringProp(v, <<>>, "purpose")>>)

\* validate(data): the boolean result and the value left in validate.errors
\* (null, written <<>>, on success)
Validate(v) == [valid |-> SchemaErrors(v) = <<>>, errors |-> SchemaErrors(v)]

\* ------------------------------------------------------ request bodies
\* a field of req.body: absent (undefined) or a string
Undef == [kind |-> "undefined", s |-> <<>>, a |-> <<>>]

StrField(text) == [kind |-> "string", s |-> text, a |-> <<>>]

\* an array of strings
ArrField(texts) == [kind |-> "array", s |-> <<>>, a |-> texts]

\* !x for a field: undefined and "" are falsy, every array is truthy
Falsy(f) == f.kind = "undefined" \/ (f.kind = "string" /\ f.s = <<>>)

WhatIsX == <<"What", " ", "is", " ", "X?">>

WhyY == <<"Why", " ", "Y?">>

\* the passage values tried
Passages == {Undef, StrField(<<>>), StrField(<<"P1">>)}

\* the questions values tried
QuestionValues ==
  {Undef, StrField(<<>>), StrField(WhatIsX), ArrField(<<>>),
   ArrField(<<WhyY>>), ArrField(<<WhatIsX, WhyY>>)}

\* bodies of /analyze and /mindmap requests (only passage is read)
PassageBodies == [passage : Passages, questions : {Undef}]

\* bodies of /solve requests
SolveBodies == [passage : Passages, questions : QuestionValues]

\* ------------------------------------------------------------- prompts
\* `${template}\n\nPassage:\n${passage}`
PassagePrompt(template, passage) ==
  <<template, NL, NL, "Passage", ":", NL>> \o passage.s

\* a map that numbers from 0, as the callback index does
NumberedFromZero(qs) == [i \in 1..Len(qs) |-> <<ToString(i - 1), ".", " ">> \o qs[i]]

\* questions.map((q, i) => `${i + 1}. ${q}`)
Numbered(qs) == [i \in 1..Len(qs) |-> <<ToString(i), ".", " ">> \o qs[i]]

\* combinedQuestions: the numbered lines of a non-empty array, else the
\* value as the template renders it (an empty array renders as "")
CombinedQuestions(q) ==
  IF q.kind = "array" /\ Len(q.a) > 0
  THEN JoinWith(Numbered(q.a), <<NL>>)
  ELSE IF q.kind = "array" THEN JoinWith(q.a, <<",">>) ELSE q.s

\* `${template}\n\nPassage:\n${passage}\n\nQuestions:\n${combinedQuestions}`
SolvePrompt(b) ==
  PassagePrompt("RC_THOUGHT_SOLVER_PROMPT", b.passage)
    \o <<NL, NL, "Questions", ":", NL>> \o CombinedQuestions(b.questions)

\* ------------------------------------------------------- model replies
ValidAnalysis ==
  ObjText(<<Member("vocabulary", ArrText(<<>>)),
            Member("title", Str("T")),
            Member("main_idea", ObjText(<<Member("direct", Str("d")),
                                          Member("indirect", Str("i"))>>)),
            Member("facts_opinions_inferences",
                   ArrText(<<ObjText(<<Member("type", Str("Fact")),
                                       Member("text", Str("f"))>>)>>)),
            Member("transitions", ArrText(<<>>)),
            Member("keywords", ArrText(<<Str("k")>>)),
            Member("purpose", Str("p"))>>)

\* valid JSON in a json fence after leading prose
FencedValid ==
  <<"Here", " ", "it", " ", "is", ":", NL, BT, BT, BT, "json", NL>>
    \o ValidAnalysis \o <<NL, BT, BT, BT, NL>>

\* the required key purpose is missing
MissingPurpose ==
  ObjText(<<Member("vocabulary", ArrText(<<>>)),
            Member("title", Str("T")),
            Member("main_idea", ObjText(<<Member("direct", Str("d")),
                                          Member("indirect", Str("i"))>>)),
            Member("facts_opinions_inferences", ArrText(<<>>)),
            Member("transitions", ArrText(<<>>)),
            Member("keywords", ArrText(<<>>))>>)

\* all seven keys and one more
ExtraKey ==
  SubSeq(ValidAnalysis, 1, Len(ValidAnalysis) - 1)
    \o <<",">> \o Member("extra", <<"1">>) \o <<"}">>

\* all seven keys, one enum value outside its list
BadEnum ==
  ObjText(<<Member("vocabulary", ArrText(<<>>)),
            Member("title", Str("T")),
            Member("main_idea", ObjText(<<Member("direct", Str("d")),
                                          Member("indirect", Str("i"))>>)),
            Member("facts_opinions_inferences",
                   ArrText(<<ObjText(<<Member("type", Str("Guess")),
                                       Member("text", Str("f"))>>)>>)),
            Member("transitions", ArrText(<<>>)),
            Member("keywords", ArrText(<<>>)),
            Member("purpose", Str("p"))>>)

\* prefix {"a":1} middle {"b":2} suffix
TwoObjects ==
  <<"prefix", " ">> \o ObjText(<<Member("a", <<"1">>)>>)
    \o <<" ", "middle", " ">> \o ObjText(<<Member("b", <<"2">>)>>)
    \o <<" ", "suffix">>

\* the slice the two-object reply must yield: {"a":1} middle {"b":2}
TwoObjectsSlice ==
  ObjText(<<Member("a", <<"1">>)>>) \o <<" ", "middle", " ">>
    \o ObjText(<<Member("b", <<"2">>)>>)

\* one object after prose: parses, carries no schema key
SmallObject == <<"Answer", ":", " ">> \o ObjText(<<Member("a", <<"1">>)>>)

\* braces around text that is not JSON
Malformed == <<"{", QT, "a", QT, ":", "}">>

\* a mind map in an html fence
HtmlFenced ==
  <<BT, BT, BT, "html", NL, "<div>", "map", "</div>", NL, BT, BT, BT>>

\* prose without any brace
NoBraces == <<"I", " ", "cannot", " ", "help">>

CuratedReplies ==
  {FencedValid, ValidAnalysis, MissingPurpose, ExtraKey, BadEnum, TwoObjects,
   SmallObject, Malformed, HtmlFenced, NoBraces}

\* the lexemes of the exhaustively enumerated replies
Alphabet == {BT, "json", "html", "{", "}", " ", "x"}

\* every text over Alphabet of at most MaxReplyLen lexemes
ShortReplies == UNION {[1..n -> Alphabet] : n \in 0..MaxReplyLen}

\* the replies the model may give in Spec
Replies == CuratedReplies \cup ShortReplies

\* the messages of the errors the provider call may reject with
ProviderErrors == {"fetch failed", "quota exceeded"}

\* --------------------------------------------------------------- state
VARIABLES
  pc,             \* per request: "idle", "awaiting" (suspended at the await
                  \* of the model call) or "responded"
  route,          \* per request: the handler that serves it
  body,           \* per request: req.body
  prompt,         \* per request: the prompt passed to model.generateContent
  calls,          \* per request: the number of model.generateContent calls
  reply,          \* per request: the text the model returned
  jsonString,     \* per request: the argument of JSON.parse
  parses,         \* per request: the number of JSON.parse calls
  validations,    \* per request: the number of validate(parsed) calls
  thrown,         \* per request: the error caught by the handler's catch
  resp,           \* per request: the response sent
  validateErrors  \* validate.errors of the one compiled validator

vars ==
  <<pc, route, body, prompt, calls, reply, jsonString, parses, validations,
    thrown, resp, validateErrors>>

\* the requests of the behaviour
Reqs == DOMAIN pc

\* a response: status, the kind of body ("json" by res.json, "text" by
\* res.send) and the fields of the body
Response(status, kind, error, details, text, json, verrs, raw) ==
  [status |-> status, kind |-> kind, error |-> error, details |-> details,
   text |-> text, json |-> json, validationErrors |-> verrs, rawOutput |-> raw]

\* no response sent yet
NoResp == Response(0, "none", "", "", <<>>, NoJson, <<>>, NoJson)

\* res.status(code).json({ error: msg })
ErrorResponse(code, msg) ==
  Response(code, "json", msg, "", <<>>, NoJson, <<>>, NoJson)

\* res.json(parsed)
JsonResponse(v) == Response(200, "json", "", "", <<>>, v, <<>>, NoJson)

\* res.send(text)
TextResponse(t) == Response(200, "text", "", "", t, NoJson, <<>>, NoJson)

\* res.status(422).json({ error, validationErrors, rawOutput })
InvalidResponse(errs, v) ==
  Response(422, "json", "Response schema validation failed", "", <<>>,
           NoJson, errs, v)

\* no error caught
NoThrow == [src |-> "none", msg |-> ""]

\* a catch block that hides the cause
CatchResponseOpaque(rt, msg) == ErrorResponse(500, "Internal server error")

\* the body of the catch block: the full server answers { error: message },
\* server.js answers { error: "Internal server error", details: message }
CatchResponse(rt, msg) ==
  IF rt = "server.analyze"
  THEN Response(500, "json", "Internal server error", msg, <<>>, NoJson,
                <<>>, NoJson)
  ELSE ErrorResponse(500, msg)

\* the message of the 400 sent when no brace is found
NoJsonMessage(rt) ==
  IF rt = "server.analyze" THEN "No valid JSON found in AI response"
  ELSE "No valid JSON found"

\* the state after construction: n requests not yet received, the validator
\* compiled and never run
InitReqs(n) ==
  /\ pc = [r \in 1..n |-> "idle"]
  /\ route = [r \in 1..n |-> "none"]
  /\ body = [r \in 1..n |-> [passage |-> Undef, questions |-> Undef]]
  /\ prompt = [r \in 1..n |-> <<>>]
  /\ calls = [r \in 1..n |-> 0]
  /\ reply = [r \in 1..n |-> <<>>]
  /\ jsonString = [r \in 1..n |-> <<>>]
  /\ parses = [r \in 1..n |-> 0]
  /\ validations = [r \in 1..n |-> 0]
  /\ thrown = [r \in 1..n |-> NoThrow]
  /\ resp = [r \in 1..n |-> NoResp]
  /\ validateErrors = <<>>

\* ------------------------------------------------- handlers up to the await
\* a test that forgets the questions of /solve
MissingPassageOnly(rt, b) == Falsy(b.passage)

\* if (!passage) ...; /solve: if (!passage || !questions) ...
Missing(rt, b) ==
  IF rt = "solve" THEN Falsy(b.passage) \/ Falsy(b.questions)
  ELSE Falsy(b.passage)

\* the message of the 400 for a missing field
MissingMessage(rt) ==
  IF rt = "solve" THEN "Passage and questions are required"
  ELSE "Passage is required"

\* the prompt a handler assembles
PromptOf(rt, b) ==
  CASE rt = "solve" -> SolvePrompt(b)
    [] rt = "mindmap" -> PassagePrompt("RC_MINDMAP_PROMPT", b.passage)
    [] OTHER -> PassagePrompt("RC_ANALYSIS_PROMPT", b.passage)

\* a handler from its entry to its return or to the await of the model call
Receive(r, rt, b) ==
  /\ pc[r] = "idle"
  /\ route' = [route EXCEPT ![r] = rt]
  /\ body' = [body EXCEPT ![r] = b]
  /\ IF Missing(rt, b)
     THEN /\ resp' = [resp EXCEPT ![r] = ErrorResponse(400, MissingMessage(rt))]
          /\ pc' = [pc EXCEPT ![r] = "responded"]
          /\ UNCHANGED <<prompt, calls>>
     ELSE /\ prompt' = [prompt EXCEPT ![r] = PromptOf(rt, b)]
          /\ calls' = [calls EXCEPT ![r] = calls[r] + 1]
          /\ pc' = [pc EXCEPT ![r] = "awaiting"]
          /\ UNCHANGED resp
  /\ UNCHANGED <<reply, jsonString, parses, validations, thrown, validateErrors>>

\* POST /analyze of the full server arrives
AnalyzeRequest(r, b) == Receive(r, "analyze", b)

\* POST /analyze of server.js arrives
ServerAnalyzeRequest(r, b) == Receive(r, "server.analyze", b)

\* POST /mindmap arrives
MindmapRequest(r, b) == Receive(r, "mindmap", b)

\* POST /solve arrives
SolveRequest(r, b) == Receive(r, "solve", b)

\* a handler that calls the model again when the call rejects
ModelRejectsRetry(r, msg) ==
  /\ pc[r] = "awaiting"
  /\ calls[r] < 3
  /\ calls' = [calls EXCEPT ![r] = calls[r] + 1]
  /\ UNCHANGED <<pc, route, body, prompt, reply, jsonString, parses,
                 validations, thrown, resp, validateErrors>>

\* the model call rejects (transport or provider error, or response.text()
\* throws): the await throws into the handler's catch
ModelRejects(r, msg) ==
  /\ pc[r] = "awaiting"
  /\ thrown' = [thrown EXCEPT ![r] = [src |-> "provider", msg |-> msg]]
  /\ resp' = [resp EXCEPT ![r] = CatchResponse(route[r], msg)]
  /\ pc' = [pc EXCEPT ![r] = "responded"]
  /\ UNCHANGED <<route, body, prompt, calls, reply, jsonString, parses,
                 validations, validateErrors>>

\* ----------------------------------------------- handlers after the await
\* generateWithModel: result.response.text().trim()
ResponseText(raw) == Trim(raw)

\* responseText.replace(/FENCEjson|FENCE/g, "").trim()
CleanText(text) == Trim(ReplaceFences(text, "json"))

\* cleanText.indexOf("{")
JsonStart(clean) == IndexOf(clean, "{")

\* an end taken at the first closing brace
JsonEndFirst(clean) == IndexOf(clean, "}")

\* cleanText.lastIndexOf("}")
JsonEnd(clean) == LastIndexOf(clean, "}")

\* a test that also rejects a closing brace before the opening one
NoJsonFoundOrdered(start, end) == start = -1 \/ end = -1 \/ end < start

\* if (start === -1 || end === -1)
NoJsonFound(start, end) == start = -1 \/ end = -1

\* cleanText.slice(start, end + 1)
JsonSlice(clean, start, end) == Slice(clean, start, end + 1)

\* a read of validate.errors that sees the value left by an earlier call
StaleErrors(after, before) == before

\* validate.errors as the handler reads it: validate(parsed) and the read
\* run in one tick, so the read sees what this call left (after), not what
\* the field held when the call started (before)
ErrorsRead(after, before) == after

\* a handler that answers 200 whatever the validator said
SchemaRejectsNever(rt, v) == FALSE

\* if (!valid) of the two /analyze handlers; /solve does not validate
SchemaRejects(rt, v) == rt \in {"analyze", "server.analyze"} /\ ~Validate(v).valid

\* /analyze and /solve from the resolution of the await to the response
JsonResume(r, raw) ==
  LET clean == CleanText(ResponseText(raw))
      start == JsonStart(clean)
      end == JsonEnd(clean)
      str == JsonSlice(clean, start, end)
      p == JsonParse(str)
      validates == route[r] \in {"analyze", "server.analyze"}
  IN /\ pc[r] = "awaiting"
     /\ reply' = [reply EXCEPT ![r] = raw]
     /\ pc' = [pc EXCEPT ![r] = "responded"]
     /\ IF NoJsonFound(start, end)
        THEN /\ resp' = [resp EXCEPT ![r] = ErrorResponse(400, NoJsonMessage(route[r]))]
             /\ UNCHANGED <<jsonString, parses, validations, thrown, validateErrors>>
        ELSE /\ jsonString' = [jsonString EXCEPT ![r] = str]
             /\ parses' = [parses EXCEPT ![r] = parses[r] + 1]
             /\ IF ~p.ok
                THEN /\ thrown' = [thrown EXCEPT ![r] = [src |-> "parse", msg |-> p.msg]]
                     /\ resp' = [resp EXCEPT ![r] = CatchResponse(route[r], p.msg)]
                     /\ UNCHANGED <<validations, validateErrors>>
                ELSE /\ validateErrors' =
                          IF validates THEN Validate(p.val).errors ELSE validateErrors
                     /\ validations' =
                          IF validates THEN [validations EXCEPT ![r] = validations[r] + 1]
                          ELSE validations
                     /\ resp' = [resp EXCEPT ![r] =
                          IF SchemaRejects(route[r], p.val)
                          THEN InvalidResponse(ErrorsRead(validateErrors', validateErrors), p.val)
                          ELSE JsonResponse(p.val)]
                     /\ UNCHANGED thrown
     /\ UNCHANGED <<route, body, prompt, calls>>

\* the model answers a /analyze request of the full server
AnalyzeReply(r, raw) == route[r] = "analyze" /\ JsonResume(r, raw)

\* the model answers a /analyze request of server.js
ServerAnalyzeReply(r, raw) == route[r] = "server.analyze" /\ JsonResume(r, raw)

\* the model answers a /solve request
SolveReply(r, raw) == route[r] = "solve" /\ JsonResume(r, raw)

\* a body cut out between the braces, as the JSON routes do
CleanHTMLSliced(text) ==
  JsonSlice(CleanText(text), JsonStart(CleanText(text)), JsonEnd(CleanText(text)))

\* responseText.replace(/FENCEhtml|FENCE/g, "").trim()
CleanHTML(text) == Trim(ReplaceFences(text, "html"))

\* the model answers a /mindmap request: res.send(cleanHTML)
MindmapReply(r, raw) ==
  /\ pc[r] = "awaiting"
  /\ route[r] = "mindmap"
  /\ reply' = [reply EXCEPT ![r] = raw]
  /\ resp' = [resp EXCEPT ![r] = TextResponse(CleanHTML(ResponseText(raw)))]
  /\ pc' = [pc EXCEPT ![r] = "responded"]
  /\ UNCHANGED <<route, body, prompt, calls, jsonString, parses, validations,
                 thrown, validateErrors>>

\* ------------------------------------------------------ specifications
\* one request, every body, every reply of Replies
Init == InitReqs(1)

\* request r is suspended in the handler of route rt
Awaiting(r, rt) == pc[r] = "awaiting" /\ route[r] = rt

Next ==
  \/ \E r \in Reqs, b \in PassageBodies : AnalyzeRequest(r, b)
  \/ \E r \in Reqs, b \in PassageBodies : ServerAnalyzeRequest(r, b)
  \/ \E r \in Reqs, b \in PassageBodies : MindmapRequest(r, b)
  \/ \E r \in Reqs, b \in SolveBodies : SolveRequest(r, b)
  \/ \E r \in Reqs : Awaiting(r, "analyze") /\ \E raw \in Replies : AnalyzeReply(r, raw)
  \/ \E r \in Reqs : Awaiting(r, "server.analyze")
                       /\ \E raw \in Replies : ServerAnalyzeReply(r, raw)
  \/ \E r \in Reqs : Awaiting(r, "mindmap") /\ \E raw \in Replies : MindmapReply(r, raw)
  \/ \E r \in Reqs : Awaiting(r, "solve") /\ \E raw \in Replies : SolveReply(r, raw)
  \/ \E r \in Reqs, msg \in ProviderErrors : ModelRejects(r, msg)

Spec == Init /\ [][Next]_vars

\* NumConc requests in flight together in the full server (server.js is a
\* program of its own and shares nothing with it), a few bodies and replies
InitConc == InitReqs(NumConc)

\* a second passage
PassageTwo == StrField(<<"P2">>)

ConcPassageBodies ==
  [passage : {Undef, StrField(<<"P1">>), PassageTwo}, questions : {Undef}]

ConcSolveBodies ==
  [passage : {StrField(<<"P1">>)}, questions : {Undef, ArrField(<<WhatIsX, WhyY>>)}]

\* all seven keys with the smallest values the schema accepts
MinimalValid ==
  ObjText(<<Member("vocabulary", ArrText(<<>>)),
            Member("title", Str("T")),
            Member("main_idea", ObjText(<<Member("direct", Str("d")),
                                          Member("indirect", Str("i"))>>)),
            Member("facts_opinions_inferences", ArrText(<<>>)),
            Member("transitions", ArrText(<<>>)),
            Member("keywords", ArrText(<<>>)),
            Member("purpose", Str("p"))>>)

\* a mind map in an html fence, closed by four backticks and a stray tag:
\* no brace anywhere, and one backtick and the tag survive the replace
MessyFenced ==
  <<BT, BT, BT, "html", NL, "<div>", "map", "</div>", NL,
    BT, BT, BT, BT, "json", " ">>

ConcReplies == {MinimalValid, MissingPurpose, SmallObject, MessyFenced}

NextConc ==
  \/ \E r \in Reqs, b \in ConcPassageBodies : AnalyzeRequest(r, b)
  \/ \E r \in Reqs, b \in ConcPassageBodies : MindmapRequest(r, b)
  \/ \E r \in Reqs, b \in ConcSolveBodies : SolveRequest(r, b)
  \/ \E r \in Reqs : Awaiting(r, "analyze") /\ \E raw \in ConcReplies : AnalyzeReply(r, raw)
  \/ \E r \in Reqs : Awaiting(r, "mindmap") /\ \E raw \in ConcReplies : MindmapReply(r, raw)
  \/ \E r \in Reqs : Awaiting(r, "solve") /\ \E raw \in ConcReplies : SolveReply(r, raw)
  \/ \E r \in Reqs : ModelRejects(r, "fetch failed")

SpecConc == InitConc /\ [][NextConc]_vars

\* ================================================================ claims
\* the model has answered request r (its await resolved with a text)
GotReply(r) ==
  pc[r] = "responded" /\ calls[r] = 1 /\ thrown[r].src # "provider"

\* the routes that extract JSON from the reply
JsonRoutes == {"analyze", "server.analyze", "solve"}

\* the routes that validate against the schema
AnalyzeRoutes == {"analyze", "server.analyze"}

\* the seven top-level keys of the schema
SevenKeys ==
  {"vocabulary", "title", "main_idea", "facts_opinions_inferences",
   "transitions", "keywords", "purpose"}

\* the two wordings of the 400 sent when no JSON is found
NoJsonMessages == {"No valid JSON found", "No valid JSON found in AI response"}

\* the reply of request r as the JSON routes clean it
CleanedReply(r) == CleanText(ResponseText(reply[r]))

\* C1: on every route a request without passage (on /solve: without passage
\* or without questions) is answered 400 and no model call was started for it
C1_MissingFieldIs400WithoutCall ==
  \A r \in Reqs :
    (/\ route[r] # "none"
     /\ \/ body[r].passage.kind = "undefined"
        \/ (route[r] = "solve" /\ body[r].questions.kind = "undefined"))
    => /\ pc[r] = "responded"
       /\ resp[r].status = 400
       /\ calls[r] = 0
       /\ prompt[r] = <<>>

C1_Witness ==
  \E r \in Reqs :
    /\ route[r] = "solve"
    /\ ~Falsy(body[r].passage)
    /\ body[r].questions.kind = "undefined"
    /\ resp[r].status = 400
    /\ calls[r] = 0

\* C2: a 200 of /analyze carries exactly the object parsed from the reply,
\* that object was validated, and its top-level keys are exactly the seven
\* keys of the schema
C2_Analyze200IsSevenKeyObject ==
  \A r \in Reqs :
    (route[r] \in AnalyzeRoutes /\ resp[r].status = 200)
    => /\ resp[r].kind = "json"
       /\ parses[r] = 1
       /\ validations[r] = 1
       /\ resp[r].json = JsonParse(jsonString[r]).val
       /\ resp[r].json.t = "object"
       /\ Keys(resp[r].json) = {<<k>> : k \in SevenKeys}
       /\ Len(resp[r].json.c) = 7

C2_Witness ==
  \E r \in Reqs :
    /\ route[r] = "analyze"
    /\ reply[r] = FencedValid
    /\ resp[r].status = 200
    /\ resp[r].json = JsonParse(ValidAnalysis).val

\* C3: when the object parsed on /analyze fails the schema, the response is
\* 422 (not 200, not the no-JSON 400), validationErrors is non-empty and
\* rawOutput is the parsed object
C3_SchemaFailureIs422 ==
  \A r \in Reqs :
    (/\ route[r] \in AnalyzeRoutes
     /\ parses[r] = 1
     /\ JsonParse(jsonString[r]).ok
     /\ \/ SchemaErrors(JsonParse(jsonString[r]).val) # <<>>
        \/ \E k \in SevenKeys : ~Has(JsonParse(jsonString[r]).val, k))
    => /\ resp[r].status = 422
       /\ resp[r].error \notin NoJsonMessages
       /\ resp[r].validationErrors # <<>>
       /\ resp[r].rawOutput = JsonParse(jsonString[r]).val

C3_Witness ==
  \E r \in Reqs :
    /\ route[r] = "analyze"
    /\ reply[r] = MissingPurpose
    /\ resp[r].status = 422
    /\ resp[r].validationErrors = <<Err(<<>>, "required", "purpose")>>
    /\ resp[r].rawOutput = JsonParse(MissingPurpose).val

\* the text lacks an opening brace or lacks a closing brace
LacksBrace(t) ==
  (\A i \in 1..Len(t) : t[i] # "{") \/ (\A i \in 1..Len(t) : t[i] # "}")

\* C4: on /analyze and /solve the no-JSON 400 is sent exactly when the
\* cleaned reply has no "{" or has no "}"; otherwise, whatever the order of
\* the two, the handler slices and parses
C4_NoJson400IffBraceMissing ==
  \A r \in Reqs :
    (route[r] \in JsonRoutes /\ GotReply(r))
    => /\ (resp[r].status = 400 /\ resp[r].error \in NoJsonMessages)
            <=> LacksBrace(CleanedReply(r))
       /\ parses[r] = (IF LacksBrace(CleanedReply(r)) THEN 0 ELSE 1)

C4_Witness ==
  \E r \in Reqs :
    /\ route[r] = "solve"
    /\ GotReply(r)
    /\ reply[r] = <<"}", "{">>
    /\ parses[r] = 1
    /\ resp[r].status = 500

\* the lexemes of t from its first "{" to its last "}", both included
FirstOpenToLastClose(t) ==
  LET a == CHOOSE i \in 1..Len(t) : t[i] = "{" /\ \A j \in 1..(i-1) : t[j] # "{"
      b == CHOOSE i \in 1..Len(t) : t[i] = "}" /\ \A j \in (i+1)..Len(t) : t[j] # "}"
  IN [k \in 1..(b - a + 1) |-> t[a + k - 1]]

\* C5: the text handed to JSON.parse is the cleaned reply from its first "{"
\* to its last "}" inclusive; for prefix {"a":1} middle {"b":2} suffix it is
\* {"a":1} middle {"b":2}
C5_SliceIsFirstOpenToLastClose ==
  \A r \in Reqs :
    /\ (route[r] \in JsonRoutes /\ GotReply(r) /\ ~LacksBrace(CleanedReply(r)))
         => /\ parses[r] = 1
            /\ jsonString[r] = FirstOpenToLastClose(CleanedReply(r))
    /\ (route[r] \in JsonRoutes /\ GotReply(r) /\ reply[r] = TwoObjects)
         => jsonString[r] = TwoObjectsSlice

C5_Witness ==
  \E r \in Reqs :
    /\ route[r] = "analyze"
    /\ GotReply(r)
    /\ reply[r] = TwoObjects
    /\ parses[r] = 1
    /\ jsonString[r] = TwoObjectsSlice

RECURSIVE QuestionLines(_, _)
\* entry i as "i. <text>", entries in order, a newline between two entries
QuestionLines(qs, i) ==
  IF i > Len(qs) THEN <<>>
  ELSE (IF i > 1 THEN <<NL>> ELSE <<>>)
         \o <<ToString(i), ".", " ">> \o qs[i] \o QuestionLines(qs, i + 1)

\* text t ends with text e
EndsWith(t, e) ==
  Len(e) <= Len(t) /\ SubSeq(t, Len(t) - Len(e) + 1, Len(t)) = e

\* C6: the /solve prompt carries a non-empty array of questions as numbered
\* lines "i. <text>" in order, newline-joined, and a string as it is
C6_SolvePromptNumbersQuestions ==
  \A r \in Reqs :
    (route[r] = "solve" /\ calls[r] = 1)
    => LET q == body[r].questions
           head == <<"RC_THOUGHT_SOLVER_PROMPT", NL, NL, "Passage", ":", NL>>
                     \o body[r].passage.s \o <<NL, NL, "Questions", ":", NL>>
       IN /\ (q.kind = "array" /\ q.a # <<>>)
               => prompt[r] = head \o QuestionLines(q.a, 1)
          /\ q.kind = "string" => prompt[r] = head \o q.s
          /\ q = ArrField(<<WhatIsX, WhyY>>)
               => EndsWith(prompt[r],
                    <<"1", ".", " ", "What", " ", "is", " ", "X?", NL,
                      "2", ".", " ", "Why", " ", "Y?">>)

C6_Witness ==
  \E r \in Reqs :
    /\ route[r] = "solve"
    /\ calls[r] = 1
    /\ body[r].questions = ArrField(<<WhatIsX, WhyY>>)
    /\ prompt[r] # <<>>

\* C7: a rejected model call, and on the JSON routes a slice that does not
\* parse, end the request with a 500 that carries the underlying message
C7_FailureIs500WithMessage ==
  \A r \in Reqs :
    /\ thrown[r].src = "provider"
         => /\ pc[r] = "responded"
            /\ resp[r].status = 500
            /\ thrown[r].msg \in {resp[r].error, resp[r].details}
    /\ (parses[r] = 1 /\ ~JsonParse(jsonString[r]).ok)
         => /\ resp[r].status = 500
            /\ JsonParse(jsonString[r]).msg \in {resp[r].error, resp[r].details}

C7_Witness ==
  \E r \in Reqs :
    /\ route[r] = "analyze"
    /\ reply[r] = Malformed
    /\ thrown[r].src = "parse"
    /\ resp[r].status = 500
    /\ resp[r].error = "Unexpected token in JSON"

\* C8: a request that passes the intake test has started exactly one model
\* call, whatever happened afterwards, and any other request none
C8_ExactlyOneUpstreamCall ==
  \A r \in Reqs :
    calls[r] =
      (IF /\ route[r] # "none"
          /\ ~Falsy(body[r].passage)
          /\ (route[r] = "solve" => ~Falsy(body[r].questions))
       THEN 1 ELSE 0)

C8_Witness ==
  \E r \in Reqs :
    /\ pc[r] = "responded"
    /\ thrown[r].src = "provider"
    /\ resp[r].status = 500
    /\ calls[r] = 1

\* no three backticks in a row are left in the text
NoFenceLeft(t) ==
  \A i \in 1..(Len(t) - 2) : ~(t[i] = BT /\ t[i+1] = BT /\ t[i+2] = BT)

\* C9: /mindmap answers every reply with 200 and the reply without fence
\* markers, trimmed, without parsing or validating; two /mindmap requests
\* with the same body and the same reply get the same response
C9_MindmapPassThrough ==
  /\ \A r \in Reqs :
       (route[r] = "mindmap" /\ GotReply(r))
       => /\ resp[r].status = 200
          /\ resp[r].kind = "text"
          /\ parses[r] = 0
          /\ validations[r] = 0
          /\ resp[r].text = Trim(ReplaceFences(Trim(reply[r]), "html"))
          /\ NoFenceLeft(resp[r].text)
          /\ resp[r].text = Trim(resp[r].text)
  /\ \A r1, r2 \in Reqs :
       (/\ route[r1] = "mindmap" /\ route[r2] = "mindmap"
        /\ GotReply(r1) /\ GotReply(r2)
        /\ body[r1] = body[r2] /\ reply[r1] = reply[r2])
       => resp[r1] = resp[r2]

C9_Witness ==
  \E r1, r2 \in Reqs :
    /\ r1 # r2
    /\ route[r1] = "mindmap" /\ route[r2] = "mindmap"
    /\ GotReply(r1) /\ GotReply(r2)
    /\ body[r1] = body[r2]
    /\ reply[r1] = MessyFenced /\ reply[r2] = MessyFenced
    /\ resp[r1].status = 200
    /\ resp[r1].text = <<"<div>", "map", "</div>", NL, BT, "json">>

\* the object request r's own reply parses to
OwnParsed(r) ==
  JsonParse(FirstOpenToLastClose(CleanedReply(r))).val

\* C10: under every interleaving a response depends only on the request's
\* own route, body and reply (or failure), and the validationErrors and
\* rawOutput of a 422 are those of the request's own parsed object
C10_RequestsIsolated ==
  /\ \A r \in Reqs :
       (route[r] = "analyze" /\ resp[r].status = 422)
       => /\ resp[r].rawOutput = OwnParsed(r)
          /\ resp[r].validationErrors = SchemaErrors(OwnParsed(r))
  /\ \A r1, r2 \in Reqs :
       (/\ pc[r1] = "responded" /\ pc[r2] = "responded"
        /\ route[r1] = route[r2] /\ body[r1] = body[r2]
        /\ reply[r1] = reply[r2] /\ thrown[r1] = thrown[r2])
       => resp[r1] = resp[r2]

C10_Witness ==
  \E r1, r2 \in Reqs :
    /\ r1 # r2
    /\ route[r1] = "analyze" /\ route[r2] = "analyze"
    /\ resp[r1].status = 422 /\ resp[r2].status = 422
    /\ resp[r1].validationErrors # resp[r2].validationErrors
    /\ validateErrors = resp[r2].validationErrors

====
